---- MODULE Spec2Model ----
(***************************************************************************)
(* Model of the sticker compositing pipeline of DADDYNAT1/Hypao:           *)
(*   remove_bg / has_transparency   (src/backend/compose.py)               *)
(*   add_outline_and_shadow         (both compose.py variants)             *)
(*   place_on_base                  (both compose.py variants)             *)
(* Each function is a small state machine: Init draws the call's inputs    *)
(* from bounded sets, the actions are the function's steps.                *)
(***************************************************************************)
EXTENDS Integers, Naturals, Sequences, FiniteSets, TLC

(***************************************************************************)
(* Python float arithmetic (IEEE-754 binary64, round to nearest even).     *)
(* A natural number is a little-endian sequence of limbs below LimbBase,   *)
(* without leading zero limbs; a positive double is [m, e] with            *)
(* 2^52 <= m < 2^53 and value m * 2^e; zero is [m |-> <<>>, e |-> 0].      *)
(***************************************************************************)
LimbBits == 15
LimbBase == 2^LimbBits
MantBits == 53

RECURSIVE Pow2(_)
Pow2(n) == IF n = 0 THEN 1 ELSE 2 * Pow2(n - 1)

RECURSIVE SmallBitLen(_)
SmallBitLen(n) == IF n = 0 THEN 0 ELSE 1 + SmallBitLen(n \div 2)

RECURSIVE NatToBig(_)
NatToBig(n) == IF n = 0 THEN <<>> ELSE <<n % LimbBase>> \o NatToBig(n \div LimbBase)

RECURSIVE BigToNat(_)
BigToNat(a) == IF a = <<>> THEN 0 ELSE Head(a) + LimbBase * BigToNat(Tail(a))

BigBitLen(a) ==
  IF a = <<>> THEN 0 ELSE (Len(a) - 1) * LimbBits + SmallBitLen(a[Len(a)])

BigIsOdd(a) == a # <<>> /\ a[1] % 2 = 1

RECURSIVE BigMulCarry(_, _, _)
BigMulCarry(a, k, carry) ==
  IF a = <<>> THEN NatToBig(carry)
  ELSE LET t == Head(a) * k + carry
       IN  <<t % LimbBase>> \o BigMulCarry(Tail(a), k, t \div LimbBase)

\* a * k for a small multiplier 0 <= k < LimbBase
BigMulSmall(a, k) == IF k = 0 THEN <<>> ELSE BigMulCarry(a, k, 0)

RECURSIVE BigStrip(_)
BigStrip(a) ==
  IF a # <<>> /\ a[Len(a)] = 0 THEN BigStrip(SubSeq(a, 1, Len(a) - 1)) ELSE a

\* long division by a small divisor 0 < d < LimbBase, most significant limb first
RECURSIVE BigDivLimbs(_, _, _)
BigDivLimbs(a, d, rem) ==
  IF a = <<>> THEN [q |-> <<>>, r |-> rem]
  ELSE LET t    == rem * LimbBase + a[Len(a)]
           rest == BigDivLimbs(SubSeq(a, 1, Len(a) - 1), d, t % d)
       IN  [q |-> rest.q \o <<t \div d>>, r |-> rest.r]

BigDivSmall(a, d) ==
  LET res == BigDivLimbs(a, d, 0) IN [q |-> BigStrip(res.q), r |-> res.r]

RECURSIVE BigInc(_)
BigInc(a) ==
  IF a = <<>> THEN <<1>>
  ELSE IF Head(a) + 1 < LimbBase THEN <<Head(a) + 1>> \o Tail(a)
  ELSE <<0>> \o BigInc(Tail(a))

\* a * 2^s
RECURSIVE BigShl(_, _)
BigShl(a, s) ==
  IF a = <<>> THEN <<>>
  ELSE IF s >= LimbBits THEN <<0>> \o BigShl(a, s - LimbBits)
  ELSE BigMulSmall(a, Pow2(s))

\* floor(a / 2^s), and whether any dropped bit (or the incoming sticky) was set
RECURSIVE BigShrSticky(_, _, _)
BigShrSticky(a, s, sticky) ==
  IF a = <<>> \/ s = 0 THEN [q |-> a, sticky |-> sticky]
  ELSE IF s >= LimbBits
    THEN BigShrSticky(Tail(a), s - LimbBits, sticky \/ Head(a) # 0)
  ELSE LET d == BigDivSmall(a, Pow2(s))
       IN  [q |-> d.q, sticky |-> sticky \/ d.r # 0]

FZero == [m |-> <<>>, e |-> 0]

\* the double nearest to p * 2^e (ties to even), p a natural of at least
\* MantBits bits; sticky says that the exact value lies strictly above p * 2^e
FRound(p, e, sticky) ==
  LET s    == BigBitLen(p) - MantBits
      keep == BigShrSticky(p, s - 1, sticky)    \* one guard bit kept
      q    == BigDivSmall(keep.q, 2).q
      up   == BigIsOdd(keep.q) /\ (keep.sticky \/ BigIsOdd(q))
      m    == IF up THEN BigInc(q) ELSE q
  IN  IF s = 0 THEN [m |-> p, e |-> e]
      ELSE IF BigBitLen(m) > MantBits
        THEN [m |-> BigDivSmall(m, 2).q, e |-> e + s + 1]
      ELSE [m |-> m, e |-> e + s]

\* n * x for an int 0 <= n < LimbBase and a double x: Python converts n to
\* float (exactly) and rounds the exact product once
FMulInt(n, x) ==
  IF n = 0 \/ x.m = <<>> THEN FZero
  ELSE FRound(BigMulSmall(x.m, n), x.e, FALSE)

DivGuard == 72
\* a / b for ints a >= 0, 0 < b < LimbBase: Python's true division of ints is
\* correctly rounded
FDivInt(a, b) ==
  IF a = 0 THEN FZero
  ELSE LET d == BigDivSmall(BigShl(NatToBig(a), DivGuard), b)
       IN  FRound(d.q, -DivGuard, d.r # 0)

\* int(x) for a double x >= 0: truncation
FTrunc(x) ==
  IF x.m = <<>> THEN 0
  ELSE IF x.e >= 0 THEN BigToNat(BigShl(x.m, x.e))
  ELSE BigToNat(BigShrSticky(x.m, -x.e, FALSE).q)

\* a decimal literal or form value with two places, p/100, as parsed by Python
FPercent(p) == FDivInt(p, 100)

(***************************************************************************)
(* Images.  A pixel is <<r, g, b, a>> (<<r, g, b>> in mode RGB).  remove_bg *)
(* works on pixel data, [mode, data]; the two compositing functions are    *)
(* modelled by geometry: an image is [mode, size, origin, layers], origin  *)
(* the place of the source silhouette inside it and layers the in-place    *)
(* composites it has received, in order.                                   *)
(***************************************************************************)
Opaque == 255
AlphaThreshold == 30

MaxPixels == 2
MaxChan == 1

AlphaSamples == {0, AlphaThreshold - 1, AlphaThreshold, Opaque - 1, Opaque}
ColorSamples == {<<c, 2 * c, Opaque - c>> : c \in 0..MaxChan}
RGBAPixels == {c \o <<a>> : c \in ColorSamples, a \in AlphaSamples}

PixelData(pixels) ==
  UNION {[1..n -> pixels] : n \in 1..MaxPixels}

InputImages ==
  {[mode |-> "RGBA", data |-> d] : d \in PixelData(RGBAPixels)}
    \cup {[mode |-> "RGB", data |-> d] : d \in PixelData(ColorSamples)}

VARIABLES
  \* remove_bg
  rb_pc, img, rgba, result, oracle_out, oracle_calls,
  \* add_outline_and_shadow
  ol_pc, im, stroke_px, add_shadow, stroke, stroke_img, sh_img, ol_base, cx, cy,
  \* place_on_base
  pl_pc, heap, base, sticker, scale, anchor, xy_pct, W, H, target_w, ratio,
  x, y, out, err,
  \* the arguments as the caller passed them (history, never written)
  base_arg, sticker_arg

rb_vars == <<rb_pc, img, rgba, result, oracle_out, oracle_calls>>
ol_vars == <<ol_pc, im, stroke_px, add_shadow, stroke, stroke_img, sh_img, ol_base, cx, cy>>
pl_vars == <<pl_pc, heap, base, sticker, scale, anchor, xy_pct, W, H, target_w, ratio,
             x, y, out, err, base_arg, sticker_arg>>
vars == <<rb_vars, ol_vars, pl_vars>>

NoImage == [mode |-> "none", data |-> <<>>]

\* A geometric image: its size, the place of the source silhouette in it, the
\* radius of the blur it went through, and the in-place composites it received
NoLayer == [content |-> "none", mode |-> "none", size |-> <<0, 0>>, origin |-> <<0, 0>>,
            blur |-> 0, layers |-> <<>>]

\* Image.new(mode, size, color): a blank image
Image_new(mode, size) ==
  [content |-> "blank", mode |-> mode, size |-> size, origin |-> <<0, 0>>, blur |-> 0,
   layers |-> <<>>]

\* an image the caller passes in
Loaded(name, mode, size) == [Image_new(mode, size) EXCEPT !.content = name]

\* img.convert("RGBA"): an RGB pixel becomes opaque
ConvertRGBA(image) ==
  IF image.mode = "RGBA" THEN image
  ELSE [mode |-> "RGBA",
        data |-> [i \in DOMAIN image.data |-> image.data[i] \o <<Opaque>>]]

has_transparency_alpha0(image) ==
  /\ image.mode = "RGBA"
  /\ \E i \in DOMAIN image.data : image.data[i][4] = 0

has_transparency(image) ==
  /\ image.mode = "RGBA"
  /\ \E i \in DOMAIN image.data : image.data[i][4] < Opaque

\* what rembg.remove may return for an image: an RGBA image of the same size
OracleOutputs(image) ==
  {[mode |-> "RGBA", data |-> d] : d \in [DOMAIN image.data -> RGBAPixels]}

CleanupPixelInclusive(item) ==
  IF item[4] <= AlphaThreshold THEN <<item[1], item[2], item[3], 0>> ELSE item

CleanupPixel(item) ==
  IF item[4] < AlphaThreshold THEN <<item[1], item[2], item[3], 0>> ELSE item

Cleanup(image) ==
  [mode |-> "RGBA", data |-> [i \in DOMAIN image.data |-> CleanupPixel(image.data[i])]]

RemoveBgIdle ==
  /\ rb_pc = "idle"
  /\ img = NoImage
  /\ rgba = NoImage
  /\ result = NoImage
  /\ oracle_out = NoImage
  /\ oracle_calls = 0

OutlineIdle ==
  /\ ol_pc = "idle"
  /\ im = NoLayer
  /\ stroke_px = 0
  /\ add_shadow = FALSE
  /\ stroke = NoLayer
  /\ stroke_img = NoLayer
  /\ sh_img = NoLayer
  /\ ol_base = NoLayer
  /\ cx = 0
  /\ cy = 0

PlaceIdle ==
  /\ pl_pc = "idle"
  /\ heap = <<>>
  /\ base = 0
  /\ sticker = NoLayer
  /\ scale = 0
  /\ anchor = "left_shoulder"
  /\ xy_pct = <<>>
  /\ W = 0
  /\ H = 0
  /\ target_w = 0
  /\ ratio = FZero
  /\ x = 0
  /\ y = 0
  /\ out = 0
  /\ err = "none"
  /\ base_arg = NoLayer
  /\ sticker_arg = NoLayer

InitRemoveBg ==
  /\ rb_pc = "call"
  /\ img \in InputImages
  /\ rgba = NoImage
  /\ result = NoImage
  /\ oracle_out = NoImage
  /\ oracle_calls = 0
  /\ OutlineIdle
  /\ PlaceIdle

\* lines 24-25
RemoveBgConvert ==
  /\ rb_pc = "call"
  /\ rgba' = ConvertRGBA(img)
  /\ rb_pc' = "converted"
  /\ UNCHANGED <<img, result, oracle_out, oracle_calls, ol_vars, pl_vars>>

\* lines 28-29
RemoveBgReturnInput ==
  /\ rb_pc = "converted"
  /\ has_transparency(rgba)
  /\ result' = rgba
  /\ rb_pc' = "done"
  /\ UNCHANGED <<img, rgba, oracle_out, oracle_calls, ol_vars, pl_vars>>

\* lines 33-42, the call returns
RemoveBgSegment ==
  /\ rb_pc = "converted"
  /\ ~has_transparency(rgba)
  /\ \E o \in OracleOutputs(rgba) : oracle_out' = o
  /\ oracle_calls' = oracle_calls + 1
  /\ rb_pc' = "segmented"
  /\ UNCHANGED <<img, rgba, result, ol_vars, pl_vars>>

\* lines 33-42, the call raises: the exception propagates
RemoveBgSegmentRaises ==
  /\ rb_pc = "converted"
  /\ ~has_transparency(rgba)
  /\ oracle_calls' = oracle_calls + 1
  /\ rb_pc' = "error"
  /\ UNCHANGED <<img, rgba, result, oracle_out, ol_vars, pl_vars>>

\* lines 45-58
RemoveBgCleanup ==
  /\ rb_pc = "segmented"
  /\ result' = Cleanup(ConvertRGBA(oracle_out))
  /\ rb_pc' = "done"
  /\ UNCHANGED <<img, rgba, oracle_out, oracle_calls, ol_vars, pl_vars>>

NextRemoveBg ==
  \/ RemoveBgConvert
  \/ RemoveBgReturnInput
  \/ RemoveBgSegment
  \/ RemoveBgSegmentRaises
  \/ RemoveBgCleanup

SpecRemoveBg == InitRemoveBg /\ [][NextRemoveBg]_vars

AlphaOf(image) == {image.data[i][4] : i \in DOMAIN image.data}

\* C1: an RGBA input with at least one alpha value below 255 is returned
\* pixel-identical, without any call to the segmentation oracle and without
\* the alpha < 30 cleanup (alphas in 1..29 are kept).
C1_ShortCircuit ==
  (rb_pc \in {"done", "error", "segmented"} /\ img.mode = "RGBA"
     /\ \E a \in AlphaOf(img) : a < Opaque)
    => /\ rb_pc = "done"
       /\ result = img
       /\ oracle_calls = 0
       /\ oracle_out = NoImage

C1_Witness ==
  /\ rb_pc = "done"
  /\ img.mode = "RGBA"
  /\ \E a \in AlphaOf(img) : a >= 1 /\ a < AlphaThreshold
  /\ 0 \notin AlphaOf(img)
  /\ result = img

\* C2: on the segmentation path every returned pixel has alpha 0 when the
\* oracle's alpha was below 30 and the oracle's alpha otherwise, with the
\* oracle's R, G, B; no alpha grows and no returned alpha lies in 1..29.
C2_CleanupMonotone ==
  (rb_pc = "done" /\ \A a \in AlphaOf(ConvertRGBA(img)) : a = Opaque)
    => /\ oracle_calls = 1
       /\ DOMAIN result.data = DOMAIN oracle_out.data
       /\ \A i \in DOMAIN oracle_out.data :
            LET o == oracle_out.data[i]
                r == result.data[i]
            IN  /\ r[4] = (IF o[4] < 30 THEN 0 ELSE o[4])
                /\ <<r[1], r[2], r[3]>> = <<o[1], o[2], o[3]>>
                /\ r[4] <= o[4]
                /\ ~(r[4] >= 1 /\ r[4] <= 29)

C2_Witness ==
  /\ rb_pc = "done"
  /\ oracle_calls = 1
  /\ {29, 30} \subseteq AlphaOf(oracle_out)
  /\ 29 \notin AlphaOf(result)
  /\ 30 \in AlphaOf(result)

(***************************************************************************)
(* Compositing geometry shared by add_outline_and_shadow and place_on_base *)
(***************************************************************************)
Max(a, b) == IF a >= b THEN a ELSE b
Min(a, b) == IF a <= b THEN a ELSE b

\* Image.paste of a box: the part of the box inside an image of this size
\* (an empty part is <<0, 0, 0, 0>>)
ClipBox(box, size) ==
  LET c == <<Max(box[1], 0), Max(box[2], 0), Min(box[3], size[1]), Min(box[4], size[2])>>
  IN  IF c[1] < c[3] /\ c[2] < c[4] THEN c ELSE <<0, 0, 0, 0>>

InBox(p, box) ==
  /\ box[1] <= p[1] /\ p[1] < box[3]
  /\ box[2] <= p[2] /\ p[2] < box[4]

alpha_composite_clamped(image, src, overlay, dest) ==
  LET d   == <<Max(dest[1], 0), Max(dest[2], 0)>>
      box == <<d[1], d[2], d[1] + overlay.size[1], d[2] + overlay.size[2]>>
  IN  [image EXCEPT !.layers =
         Append(@, [src |-> src, size |-> overlay.size, origin |-> overlay.origin,
                    dest |-> d, box |-> box, pasted |-> ClipBox(box, image.size)])]

\* Image.alpha_composite(im, dest), in place: the overlay is composited over the
\* crop of this image at box = dest + overlay size (a crop beyond the image is
\* padded), and the result is pasted back at box, which keeps only the part of
\* it inside the image
alpha_composite(image, src, overlay, dest) ==
  LET box == <<dest[1], dest[2], dest[1] + overlay.size[1], dest[2] + overlay.size[2]>>
  IN  [image EXCEPT !.layers =
         Append(@, [src |-> src, size |-> overlay.size, origin |-> overlay.origin,
                    dest |-> dest, box |-> box, pasted |-> ClipBox(box, image.size)])]

\* ImageOps.expand(image, border): a border on every side, the image pasted
\* at (border, border)
ImageOps_expand(image, border) ==
  [image EXCEPT !.size = <<image.size[1] + 2 * border, image.size[2] + 2 * border>>,
                !.origin = <<image.origin[1] + border, image.origin[2] + border>>]

\* image.filter(ImageFilter.GaussianBlur(radius)): same size
GaussianBlur(image, radius) == [image EXCEPT !.blur = radius]

(***************************************************************************)
(* add_outline_and_shadow                                                  *)
(***************************************************************************)
StrokeBlur == 1
ShadowBlur == 4
DefaultStroke == 3
MaxSide == 3
MaxStroke == 3

CutoutSides == (1..MaxSide) \cup {100}

InitOutline ==
  /\ ol_pc = "call"
  /\ \E w \in CutoutSides, h \in CutoutSides, m \in {"RGB", "RGBA"} :
       im = Loaded("im", m, <<w, h>>)
  /\ stroke_px \in (0..MaxStroke) \cup {DefaultStroke}
  /\ add_shadow \in BOOLEAN
  /\ stroke = NoLayer
  /\ stroke_img = NoLayer
  /\ sh_img = NoLayer
  /\ ol_base = NoLayer
  /\ cx = 0
  /\ cy = 0
  /\ RemoveBgIdle
  /\ PlaceIdle

\* line 77: the canvas has the stroke mask's size, with or without a shadow
OutlineCanvas(stroke_mask, alpha_mask, px, shadow_on) ==
  Image_new("RGBA", stroke_mask.size)

\* the offset of the cutout on the canvas
CenterOffsetTopLeft(outer, inner) == 0

CenterOffset(outer, inner) == (outer - inner) \div 2

\* lines 65-77: the stroke mask, the stroke layer and the transparent canvas
OutlineStroke ==
  /\ ol_pc = "call"
  /\ LET rgba_im == [im EXCEPT !.mode = "RGBA"]
         alpha   == [rgba_im EXCEPT !.mode = "L"]
         mask    == GaussianBlur(ImageOps_expand(alpha, stroke_px), StrokeBlur)
     IN  /\ im' = rgba_im
         /\ stroke' = mask
         /\ stroke_img' = [Image_new("RGBA", mask.size) EXCEPT !.origin = mask.origin,
                                                               !.blur = mask.blur]
         /\ ol_base' = OutlineCanvas(mask, alpha, stroke_px, add_shadow)
  /\ ol_pc' = "stroked"
  /\ UNCHANGED <<stroke_px, add_shadow, sh_img, cx, cy, rb_vars, pl_vars>>

\* lines 78-85
OutlineShadow ==
  /\ ol_pc = "stroked"
  /\ add_shadow
  /\ LET alpha  == [im EXCEPT !.mode = "L"]
         shadow == GaussianBlur(ImageOps_expand(alpha, stroke_px * 2), ShadowBlur)
         layer  == [Image_new("RGBA", shadow.size) EXCEPT !.origin = shadow.origin,
                                                          !.blur = shadow.blur]
     IN  /\ sh_img' = layer
         /\ ol_base' = alpha_composite(ol_base, "sh_img", layer, <<0, 0>>)
  /\ ol_pc' = "shadowed"
  /\ UNCHANGED <<im, stroke_px, add_shadow, stroke, stroke_img, cx, cy, rb_vars, pl_vars>>

\* line 78, add_shadow false
OutlineNoShadow ==
  /\ ol_pc = "stroked"
  /\ ~add_shadow
  /\ ol_pc' = "shadowed"
  /\ UNCHANGED <<im, stroke_px, add_shadow, stroke, stroke_img, sh_img, ol_base, cx, cy,
                 rb_vars, pl_vars>>

\* lines 88-93
OutlineCompose ==
  /\ ol_pc = "shadowed"
  /\ cx' = CenterOffset(stroke_img.size[1], im.size[1])
  /\ cy' = CenterOffset(stroke_img.size[2], im.size[2])
  /\ ol_base' = alpha_composite(alpha_composite(ol_base, "stroke_img", stroke_img, <<0, 0>>),
                                "im", im, <<cx', cy'>>)
  /\ ol_pc' = "done"
  /\ UNCHANGED <<im, stroke_px, add_shadow, stroke, stroke_img, sh_img, rb_vars, pl_vars>>

NextOutline ==
  \/ OutlineStroke
  \/ OutlineShadow
  \/ OutlineNoShadow
  \/ OutlineCompose

SpecOutline == InitOutline /\ [][NextOutline]_vars

LayersOf(image, src) ==
  {image.layers[i] : i \in {j \in DOMAIN image.layers : image.layers[j].src = src}}

\* twice the centre of a layer's box, in canvas coordinates
BoxCentre2(layer) == <<layer.box[1] + layer.box[3], layer.box[2] + layer.box[4]>>

\* C3: without shadow the canvas is (w + 2*stroke_px) x (h + 2*stroke_px) and
\* the cutout is composited whole with its top-left at
\* (floor((canvas_w - w)/2), floor((canvas_h - h)/2)) = (stroke_px, stroke_px).
C3_CenteredNoShadow ==
  (ol_pc = "done" /\ ~add_shadow)
    => LET w == im.size[1]
           h == im.size[2]
       IN  /\ ol_base.size = <<w + 2 * stroke_px, h + 2 * stroke_px>>
           /\ LayersOf(ol_base, "sh_img") = {}
           /\ Len(ol_base.layers) = 2
           /\ \A l \in LayersOf(ol_base, "im") :
                /\ l.dest = <<stroke_px, stroke_px>>
                /\ l.dest = <<(ol_base.size[1] - w) \div 2, (ol_base.size[2] - h) \div 2>>
                /\ l.box = <<stroke_px, stroke_px, stroke_px + w, stroke_px + h>>
                /\ l.pasted = l.box
           /\ ol_base.layers[2].src = "im"

C3_Witness ==
  /\ ol_pc = "done"
  /\ ~add_shadow
  /\ im.size = <<100, 100>>
  /\ stroke_px = 3
  /\ ol_base.size = <<106, 106>>
  /\ ol_base.layers[2].pasted = <<3, 3, 103, 103>>

\* C4: with shadow and stroke_px > 0 the canvas is (w + 4*stroke_px) x
\* (h + 4*stroke_px), the whole shadow layer fits on it, and shadow, stroke and
\* cutout are centred on the same point, the cutout at floor((canvas - input)/2).
C4_ShadowCanvas ==
  (ol_pc = "done" /\ add_shadow /\ stroke_px > 0)
    => LET w == im.size[1]
           h == im.size[2]
       IN  /\ ol_base.size = <<w + 4 * stroke_px, h + 4 * stroke_px>>
           /\ \A l \in LayersOf(ol_base, "sh_img") : l.pasted = l.box
           /\ \A l, k \in {ol_base.layers[i] : i \in DOMAIN ol_base.layers} :
                BoxCentre2(l) = BoxCentre2(k)
           /\ \A l \in LayersOf(ol_base, "im") :
                l.dest = <<(ol_base.size[1] - w) \div 2, (ol_base.size[2] - h) \div 2>>

(***************************************************************************)
(* place_on_base.  Images live in a heap of objects so that aliasing is    *)
(* visible: base is the caller's object, out the one that is returned.     *)
(***************************************************************************)
DefaultScale == 25
MaxSmallSide == 2
MaxBaseSide == 3
MaxStickerSide == 2

AnchorPct ==
  [left_shoulder  |-> <<33, 62>>,
   right_shoulder |-> <<67, 62>>,
   chest          |-> <<50, 70>>,
   lower_left     |-> <<25, 78>>,
   lower_right    |-> <<75, 78>>]

AnchorKeys == DOMAIN AnchorPct \cup {"forehead"}

\* xy_pct: None is <<>>, else (x%, y%) in hundredths
XYSamples == {<<>>, <<50, 50>>, <<0, 100>>, <<100, 0>>}

\* base.convert("RGBA").copy(): two fresh objects, the second is returned
BaseAlias(h, ref) == [heap |-> h, ref |-> ref]

BaseCopy(h, ref) ==
  LET converted == Append(h, [h[ref] EXCEPT !.mode = "RGBA"])
      copied    == Append(converted, converted[Len(converted)])
  IN  [heap |-> copied, ref |-> Len(copied)]

\* int(n * f) for a float f given in hundredths
ScaleInt(n, pct) == FTrunc(FMulInt(n, FPercent(pct)))

\* dict.get(anchor, anchors["left_shoulder"])
anchors_get_chest(table, key) ==
  IF key \in DOMAIN table THEN table[key] ELSE table["chest"]

anchors_get(table, key) ==
  IF key \in DOMAIN table THEN table[key] ELSE table["left_shoulder"]

\* lines 119-125: every entry is computed, whichever is asked for
anchors(bw, bh, sw, sh) ==
  [k \in DOMAIN AnchorPct |->
     <<ScaleInt(bw, AnchorPct[k][1]) - sw \div 2, ScaleInt(bh, AnchorPct[k][2]) - sh \div 2>>]

\* lines 115-126
PastePoint(bw, bh, sw, sh, key, xy) ==
  IF xy # <<>>
    THEN <<ScaleInt(bw, xy[1]) - sw \div 2, ScaleInt(bh, xy[2]) - sh \div 2>>
  ELSE anchors_get(anchors(bw, bh, sw, sh), key)

\* line 112: the size handed to sticker.resize
ResizeSize(tw, r, sh) == <<tw, FTrunc(FMulInt(sh, r))>>

InitPlaceWith(Ws, Hs, ws, hs, scales, modes) ==
  /\ pl_pc = "call"
  /\ \E bw \in Ws, bh \in Hs, m \in modes : base_arg = Loaded("base", m, <<bw, bh>>)
  /\ heap = <<base_arg>>
  /\ base = 1
  /\ \E sw \in ws, sh \in hs : sticker_arg = Loaded("sticker", "RGBA", <<sw, sh>>)
  /\ sticker = sticker_arg
  /\ scale \in scales
  /\ \/ anchor \in AnchorKeys /\ xy_pct = <<>>
     \/ anchor = "chest" /\ xy_pct \in XYSamples \ {<<>>}
  /\ W = 0
  /\ H = 0
  /\ target_w = 0
  /\ ratio = FZero
  /\ x = 0
  /\ y = 0
  /\ out = 0
  /\ err = "none"
  /\ RemoveBgIdle
  /\ OutlineIdle

\* base and sticker sizes that reach the roundings of the float products
InitPlace ==
  InitPlaceWith((1..MaxSmallSide) \cup {13, 50, 200}, (1..MaxSmallSide) \cup {90, 200},
                (0..MaxSmallSide) \cup {3, 50}, (1..MaxSmallSide) \cup {27, 50},
                {DefaultScale, 50, 75, 100}, {"RGBA"})

\* small canvases, on which every pixel is looked at
InitPlacePixels ==
  InitPlaceWith(1..MaxBaseSide, 1..MaxBaseSide, 0..MaxStickerSide, 1..MaxStickerSide,
                {50, 100, 150}, {"RGB", "RGBA"})

\* lines 107-111, sticker.width is not 0
PlaceScale ==
  /\ pl_pc = "call"
  /\ sticker.size[1] # 0
  /\ W' = heap[base].size[1]
  /\ H' = heap[base].size[2]
  /\ target_w' = ScaleInt(W', scale)
  /\ ratio' = FDivInt(target_w', sticker.size[1])
  /\ pl_pc' = "scaled"
  /\ UNCHANGED <<heap, base, sticker, scale, anchor, xy_pct, x, y, out, err, base_arg, sticker_arg, rb_vars, ol_vars>>

\* lines 107-111, sticker.width is 0: the division raises
PlaceScaleRaises ==
  /\ pl_pc = "call"
  /\ sticker.size[1] = 0
  /\ W' = heap[base].size[1]
  /\ H' = heap[base].size[2]
  /\ target_w' = ScaleInt(W', scale)
  /\ err' = "ZeroDivisionError"
  /\ pl_pc' = "error"
  /\ UNCHANGED <<heap, base, sticker, scale, anchor, xy_pct, ratio, x, y, out, base_arg, sticker_arg, rb_vars, ol_vars>>

\* line 112: Image.resize returns a new image of the size asked for
PlaceResize ==
  /\ pl_pc = "scaled"
  /\ LET size == ResizeSize(target_w, ratio, sticker.size[2])
     IN  /\ size[1] >= 1 /\ size[2] >= 1
         /\ sticker' = [sticker EXCEPT !.size = size]
  /\ pl_pc' = "resized"
  /\ UNCHANGED <<heap, base, scale, anchor, xy_pct, W, H, target_w, ratio, x, y, out, err,
                 base_arg, sticker_arg, rb_vars, ol_vars>>

\* line 112: Image.resize refuses a width or height of 0 ("height and width
\* must be > 0")
PlaceResizeRaises ==
  /\ pl_pc = "scaled"
  /\ LET size == ResizeSize(target_w, ratio, sticker.size[2])
     IN  size[1] < 1 \/ size[2] < 1
  /\ err' = "ValueError"
  /\ pl_pc' = "error"
  /\ UNCHANGED <<heap, base, sticker, scale, anchor, xy_pct, W, H, target_w, ratio, x, y, out,
                 base_arg, sticker_arg, rb_vars, ol_vars>>

\* lines 115-126
PlaceAnchor ==
  /\ pl_pc = "resized"
  /\ LET p == PastePoint(W, H, sticker.size[1], sticker.size[2], anchor, xy_pct)
     IN  x' = p[1] /\ y' = p[2]
  /\ pl_pc' = "anchored"
  /\ UNCHANGED <<heap, base, sticker, scale, anchor, xy_pct, W, H, target_w, ratio, out, err,
                 base_arg, sticker_arg, rb_vars, ol_vars>>

\* lines 128-130
PlaceComposite ==
  /\ pl_pc = "anchored"
  /\ LET c == BaseCopy(heap, base)
     IN  /\ out' = c.ref
         /\ heap' = [c.heap EXCEPT ![c.ref] = alpha_composite(@, "sticker", sticker, <<x, y>>)]
  /\ pl_pc' = "done"
  /\ UNCHANGED <<base, sticker, scale, anchor, xy_pct, W, H, target_w, ratio, x, y, err,
                 base_arg, sticker_arg, rb_vars, ol_vars>>

NextPlace ==
  \/ PlaceScale
  \/ PlaceScaleRaises
  \/ PlaceResize
  \/ PlaceResizeRaises
  \/ PlaceAnchor
  \/ PlaceComposite

SpecPlace == InitPlace /\ [][NextPlace]_vars

SpecPlacePixels == InitPlacePixels /\ [][NextPlace]_vars

\* the three functions together
Init == InitRemoveBg \/ InitOutline \/ InitPlace \/ InitPlacePixels

Next == NextRemoveBg \/ NextOutline \/ NextPlace

Spec == Init /\ [][Next]_vars

\* the pixel of an image at p, symbolically: the original pixel of its content
\* at p, and the overlay pixels composited over it, bottom to top
RECURSIVE OverAt(_, _)
OverAt(layers, p) ==
  IF layers = <<>> THEN <<>>
  ELSE LET l == Head(layers)
       IN  (IF InBox(p, l.pasted)
              THEN <<<<l.src, p[1] - l.dest[1], p[2] - l.dest[2]>>>>
              ELSE <<>>) \o OverAt(Tail(layers), p)

PixelAt(image, p) ==
  [content |-> image.content, mode |-> image.mode, at |-> p, over |-> OverAt(image.layers, p)]

Coords(size) == (0..(size[1] - 1)) \X (0..(size[2] - 1))

PasteRect == <<x, y, x + sticker.size[1], y + sticker.size[2]>>

Placed == pl_pc \in {"anchored", "done"}

\* floor(n * pct / 100) in exact arithmetic
ExactFloorPct(n, pct) == (n * pct) \div 100

\* C5: the sticker is pasted with top-left (floor(W*fx) - floor(w'/2),
\* floor(H*fy) - floor(h'/2)), (fx, fy) the explicit pair when one is given and
\* else the table entry of the anchor keyword.
C5_PasteCoordinates ==
  (Placed /\ (xy_pct # <<>> \/ anchor \in DOMAIN AnchorPct))
    => LET f == IF xy_pct # <<>> THEN xy_pct ELSE AnchorPct[anchor]
       IN  /\ x = ExactFloorPct(W, f[1]) - sticker.size[1] \div 2
           /\ y = ExactFloorPct(H, f[2]) - sticker.size[2] \div 2

\* C6: with xy_pct absent, an anchor keyword outside the table gives the paste
\* coordinates and the output image of anchor = "left_shoulder", and raises no
\* error of its own.
C6_UnknownAnchorFallback ==
  (pl_pc # "call" /\ xy_pct = <<>> /\ anchor \notin DOMAIN AnchorPct)
    => LET ls == anchors(W, H, sticker.size[1], sticker.size[2])["left_shoulder"]
       IN  /\ err \in {"none", "ZeroDivisionError", "ValueError"}
           /\ err # "none" => sticker = sticker_arg
           /\ Placed => <<x, y>> = ls
           /\ pl_pc = "done" =>
                heap[out] = alpha_composite([base_arg EXCEPT !.mode = "RGBA"],
                                            "sticker", sticker, ls)

C6_Witness ==
  /\ pl_pc = "done"
  /\ xy_pct = <<>>
  /\ anchor = "forehead"
  /\ W = 200 /\ H = 200
  /\ <<x, y>> = <<66 - 25, 124 - 25>>

\* C7: for W >= 1, a w x h sticker (w, h >= 1) and scale in (0, 1], the sticker
\* is resized to width floor(W*scale) and height floor(h*floor(W*scale)/w),
\* less than one pixel from the exact aspect-preserving height.
C7_ScaleCorrect ==
  (pl_pc \in {"resized", "anchored", "done"} /\ scale <= 100)
    => LET tw == ExactFloorPct(W, scale)
           w  == sticker_arg.size[1]
           h  == sticker_arg.size[2]
       IN  /\ sticker.size[1] = tw
           /\ sticker.size[2] = (h * tw) \div w
           /\ sticker.size[2] * w <= h * tw
           /\ h * tw < (sticker.size[2] + 1) * w

\* the call's geometry is degenerate: a sticker of width 0, or a resized width
\* or height of 0
Degenerate ==
  LET w  == sticker_arg.size[1]
      h  == sticker_arg.size[2]
      tw == ExactFloorPct(base_arg.size[1], scale)
  IN  w = 0 \/ tw = 0 \/ (h * tw) \div w = 0

\* C8: a sticker of width 0, or a resized width or height of 0, is reported
\* as DegenerateGeometry before any division or resize; there is no raw
\* division by zero and no resize to a 0-sized sticker.
C8_DegenerateReported ==
  (pl_pc # "call" /\ Degenerate)
    => /\ pl_pc = "error"
       /\ err = "DegenerateGeometry"

\* C9: the caller's base image is unchanged by the call, the returned image
\* has the base's size, and every returned pixel outside the paste rectangle
\* equals the base's pixel (converted to RGBA).
C9_BasePreserved ==
  /\ pl_pc # "idle" => heap[base] = base_arg
  /\ pl_pc = "done" =>
       /\ out # base
       /\ heap[out].size = base_arg.size
       /\ \A p \in Coords(heap[out].size) :
            ~InBox(p, PasteRect)
              => PixelAt(heap[out], p) = PixelAt([base_arg EXCEPT !.mode = "RGBA"], p)

C9_Witness ==
  /\ pl_pc = "done"
  /\ heap[base] = base_arg
  /\ base_arg.mode = "RGB"
  /\ \E p, q \in Coords(heap[out].size) :
       /\ ~InBox(p, PasteRect) /\ PixelAt(heap[out], p).over = <<>>
       /\ InBox(q, PasteRect) /\ PixelAt(heap[out], q).over # <<>>

\* C10: the top-left is never clamped; a paste rectangle that leaves the canvas
\* on any side completes without error, the sticker pixels outside the canvas
\* are dropped and those inside are composited at their unclamped positions.
C10_SilentClipping ==
  /\ (pl_pc = "error") => (sticker = sticker_arg /\ out = 0)
  /\ pl_pc = "done" =>
       /\ err = "none"
       /\ \A q \in Coords(heap[out].size) :
            PixelAt(heap[out], q).over
              = IF InBox(q, PasteRect) THEN <<<<"sticker", q[1] - x, q[2] - y>>>> ELSE <<>>
       /\ \A s \in Coords(sticker.size) :
            LET p == <<x + s[1], y + s[2]>>
            IN  IF InBox(p, <<0, 0, W, H>>)
                  THEN PixelAt(heap[out], p).over = <<<<"sticker", s[1], s[2]>>>>
                ELSE \A q \in Coords(heap[out].size) :
                       <<"sticker", s[1], s[2]>> \notin
                         {PixelAt(heap[out], q).over[i] :
                            i \in DOMAIN PixelAt(heap[out], q).over}

C10_Witness ==
  /\ pl_pc = "done"
  /\ x < 0
  /\ y + sticker.size[2] > H
  /\ \E q \in Coords(heap[out].size) : PixelAt(heap[out], q).over # <<>>
  /\ \E s \in Coords(sticker.size) : ~InBox(<<x + s[1], y + s[2]>>, <<0, 0, W, H>>)

====
